---- MODULE Spec2Model ----
(***************************************************************************)
(* A model of main.py: a FastAPI service that scrapes exchange rates from  *)
(* bonbast.com and api.wallex.ir, memoizes every endpoint for 1800 s in    *)
(* the in-memory fastapi-cache backend, and runs a background poller.      *)
(*                                                                         *)
(* Concurrency is asyncio's: one event loop, a task runs until it awaits   *)
(* something that is really pending.  crawl_soup (httpx.post) and the      *)
(* bonbast helpers are blocking calls, so a handler that uses them runs    *)
(* from its cache lookup to its cache store as one step.  Only             *)
(* get_crypto_prices (httpx.AsyncClient) and asyncio.sleep suspend.        *)
(*                                                                         *)
(* Text is modelled as a sequence of one-character strings, so that        *)
(* parsing, formatting and lower-casing are computed, not assumed.         *)
(***************************************************************************)
EXTENDS Integers, Sequences, FiniteSets, TLC

VARIABLES
    now,        \* wall clock, whole seconds (InMemoryBackend._now)
    store,      \* InMemoryBackend._store: key -> [value, expire]
    upstream,   \* which of its states the upstream sites are in
    poller,     \* the scheduler task: [pc, wakeAt, cycle, answer, log, sent];
                \* log lists what the current (when ready: the last) cycle
                \* did, sent names the upstreams it has sent a request to
    reqs,       \* HTTP requests: slot -> request record
    events,     \* how many requests, clock advances and upstream changes so far
    success,    \* history: the latest successful response to the requests
    input,      \* a single call: the function called and its arguments
    output      \* a single call: what the function returned or raised

vars == <<now, store, upstream, poller, reqs, events, success, input, output>>

----------------------------------------------------------------------------
(* Bounds of the model *)

\* requests, clock advances, upstream changes and poller wake-ups per behaviour
MaxEvents == 3

(* Program constants *)

Expire == 1800       \* expire=60 * 30
SleepSeconds == 10   \* asyncio.sleep(10)

Requests == 1..MaxEvents
TickSteps == {Expire, Expire + 1}

----------------------------------------------------------------------------
(* Results of a call: a returned value or a raised exception *)

Ok(v) == [ok |-> TRUE, value |-> v]
HTTPException(code, text) ==
    [ok |-> FALSE, exc |-> "HTTPException", status |-> code, detail |-> text]
Exception(text) ==
    [ok |-> FALSE, exc |-> "Exception", status |-> 500, detail |-> text]
\* exceptions no handler catches: the server answers 500
Uncaught(name) ==
    [ok |-> FALSE, exc |-> name, status |-> 500, detail |-> "Internal Server Error"]
ValueError == [ok |-> FALSE, exc |-> "ValueError"]

----------------------------------------------------------------------------
(* The cache store (fastapi_cache.backends.inmemory.InMemoryBackend).      *)
(* FastAPICache's backend and cache_backend are two instances of the same  *)
(* class and the store is kept per class, so they are one map here; the    *)
(* keys of the two never coincide.                                         *)

NoValue == [none |-> TRUE]

\* the key the decorator builds: function name, positional and keyword args
CacheKey(fn, args, kwargs) == [fn |-> fn, args |-> args, kwargs |-> kwargs]
\* the keys the poller writes directly
RawKey(name) == [fn |-> name, args |-> <<"raw">>, kwargs |-> <<>>]

Live(st, key, t) == key \in DOMAIN st /\ ~(st[key].expire < t)

\* get: the value if present and not expired; an expired entry is dropped
backend_get(st, key, t) ==
    IF Live(st, key, t)
    THEN [hit |-> TRUE, value |-> st[key].value, store |-> st]
    ELSE [hit |-> FALSE, value |-> NoValue,
          store |-> [k \in DOMAIN st \ {key} |-> st[k]]]

\* a slip: an entry that is there is kept
backend_set_keep(st, key, v, ttl, t) ==
    IF key \in DOMAIN st THEN st ELSE (key :> [value |-> v, expire |-> t + ttl]) @@ st

\* set: overwrite the entry with the value and expiry now + ttl
backend_set(st, key, v, ttl, t) ==
    (key :> [value |-> v, expire |-> t + ttl]) @@ st

\* the coder of the decorator (JSON text); the raw keys hold plain values
Encode(v) == [json |-> v]
Decode(e) == e.json

----------------------------------------------------------------------------
(* Text: a string is a sequence of one-character strings *)

DigitChars == {"0", "1", "2", "3", "4", "5", "6", "7", "8", "9"}

DigitVal(c) ==
    CASE c = "0" -> 0 [] c = "1" -> 1 [] c = "2" -> 2 [] c = "3" -> 3
      [] c = "4" -> 4 [] c = "5" -> 5 [] c = "6" -> 6 [] c = "7" -> 7
      [] c = "8" -> 8 [] c = "9" -> 9

DigitChar(n) ==
    CASE n = 0 -> "0" [] n = 1 -> "1" [] n = 2 -> "2" [] n = 3 -> "3"
      [] n = 4 -> "4" [] n = 5 -> "5" [] n = 6 -> "6" [] n = 7 -> "7"
      [] n = 8 -> "8" [] n = 9 -> "9"

AllDigits(s) == \A i \in 1..Len(s) : s[i] \in DigitChars

RECURSIVE DecimalValue(_)
DecimalValue(s) ==
    IF s = <<>> THEN 0
    ELSE 10 * DecimalValue(SubSeq(s, 1, Len(s) - 1)) + DigitVal(s[Len(s)])

\* str.lower() on the letters the model uses
LowerChar(c) ==
    CASE c = "A" -> "a" [] c = "B" -> "b" [] c = "D" -> "d" [] c = "E" -> "e"
      [] c = "R" -> "r" [] c = "S" -> "s" [] c = "T" -> "t" [] c = "U" -> "u"
      [] OTHER -> c

Lower(s) == [i \in 1..Len(s) |-> LowerChar(s[i])]

\* str.strip() of blanks, as int() does before it reads the digits
RECURSIVE Strip(_)
Strip(s) ==
    IF s = <<>> THEN s
    ELSE IF s[1] = " " THEN Strip(Tail(s))
    ELSE IF s[Len(s)] = " " THEN Strip(SubSeq(s, 1, Len(s) - 1))
    ELSE s

\* the digits of an int() literal: digits, single underscores between them
IntBody(b) ==
    /\ b # <<>>
    /\ b[1] \in DigitChars
    /\ b[Len(b)] \in DigitChars
    /\ \A i \in 1..Len(b) : b[i] \in DigitChars \cup {"_"}
    /\ \A i \in 1..(Len(b) - 1) : ~(b[i] = "_" /\ b[i + 1] = "_")

\* int(text): the value, or ValueError
int(text) ==
    LET s == Strip(text)
        signed == s # <<>> /\ s[1] \in {"+", "-"}
        b == IF signed THEN Tail(s) ELSE s
        digits == SelectSeq(b, LAMBDA c : c # "_")
    IN  IF IntBody(b)
        THEN Ok(IF signed /\ s[1] = "-" THEN 0 - DecimalValue(digits)
                                         ELSE DecimalValue(digits))
        ELSE ValueError

----------------------------------------------------------------------------
(* Dates: datetime.strptime, strftime, timedelta arithmetic *)

IsLeap(y) == (y % 4 = 0) /\ ((y % 100 # 0) \/ (y % 400 = 0))

DaysInMonth(y, m) ==
    IF m = 2 THEN (IF IsLeap(y) THEN 29 ELSE 28)
    ELSE IF m \in {4, 6, 9, 11} THEN 30 ELSE 31

\* the directive %m: 1[0-2]|0[1-9]|[1-9]
MonthToken(tok) ==
    \/ Len(tok) = 1 /\ tok[1] \in DigitChars \ {"0"}
    \/ Len(tok) = 2 /\ tok[1] = "1" /\ tok[2] \in {"0", "1", "2"}
    \/ Len(tok) = 2 /\ tok[1] = "0" /\ tok[2] \in DigitChars \ {"0"}

\* the directive %d: 3[0-1]|[1-2]\d|0[1-9]|[1-9]| [1-9]
DayToken(tok) ==
    \/ Len(tok) = 1 /\ tok[1] \in DigitChars \ {"0"}
    \/ Len(tok) = 2 /\ tok[1] = "3" /\ tok[2] \in {"0", "1"}
    \/ Len(tok) = 2 /\ tok[1] \in {"1", "2"} /\ tok[2] \in DigitChars
    \/ Len(tok) = 2 /\ tok[1] \in {"0", " "} /\ tok[2] \in DigitChars \ {"0"}

TokenValue(tok) == DecimalValue(SelectSeq(tok, LAMBDA c : c # " "))

\* the datetime constructor: year >= 1 and the day within the month
MakeDate(y, m, d) ==
    IF y >= 1 /\ d <= DaysInMonth(y, m)
    THEN [ok |-> TRUE, y |-> y, m |-> m, d |-> d]
    ELSE ValueError

\* position of the first "-" of s, 0 if there is none
FirstDash(s) ==
    IF \E i \in 1..Len(s) : s[i] = "-"
    THEN CHOOSE i \in 1..Len(s) : s[i] = "-" /\ \A j \in 1..(i - 1) : s[j] # "-"
    ELSE 0

\* %Y- : four digits and a dash; what follows them
YearPrefix(s) == Len(s) >= 5 /\ AllDigits(SubSeq(s, 1, 4)) /\ s[5] = "-"

\* datetime.strptime(s, "%Y-%m")
strptime_ym(s) ==
    IF ~YearPrefix(s) THEN ValueError
    ELSE LET mt == SubSeq(s, 6, Len(s))
         IN  IF MonthToken(mt)
             THEN MakeDate(DecimalValue(SubSeq(s, 1, 4)), TokenValue(mt), 1)
             ELSE ValueError

\* datetime.strptime(s, "%Y-%m-%d")
strptime_ymd(s) ==
    IF ~YearPrefix(s) THEN ValueError
    ELSE LET rest == SubSeq(s, 6, Len(s))
             k == FirstDash(rest)
             mt == SubSeq(rest, 1, k - 1)
             dt == SubSeq(rest, k + 1, Len(rest))
         IN  IF k > 0 /\ MonthToken(mt) /\ DayToken(dt)
             THEN MakeDate(DecimalValue(SubSeq(s, 1, 4)), TokenValue(mt),
                           TokenValue(dt))
             ELSE ValueError

Pad2(n) == <<DigitChar(n \div 10), DigitChar(n % 10)>>
Pad4(n) == <<DigitChar(n \div 1000), DigitChar((n \div 100) % 10),
             DigitChar((n \div 10) % 10), DigitChar(n % 10)>>

\* date.strftime("%Y-%m-%d") for the four-digit years of the model
strftime_ymd(date) == Pad4(date.y) \o <<"-">> \o Pad2(date.m) \o <<"-">> \o Pad2(date.d)

\* date.toordinal(): days since 0001-01-01, that day being 1
RECURSIVE DaysBeforeMonth(_, _)
DaysBeforeMonth(y, m) ==
    IF m = 1 THEN 0 ELSE DaysBeforeMonth(y, m - 1) + DaysInMonth(y, m - 1)

ToOrdinal(date) ==
    LET p == date.y - 1
    IN  p * 365 + (p \div 4) - (p \div 100) + (p \div 400)
          + DaysBeforeMonth(date.y, date.m) + date.d

\* (end - start).days
DurationDays(start, end) == ToOrdinal(end) - ToOrdinal(start)

NextDay(date) ==
    IF date.d < DaysInMonth(date.y, date.m) THEN [date EXCEPT !.d = @ + 1]
    ELSE IF date.m < 12 THEN [date EXCEPT !.m = @ + 1, !.d = 1]
    ELSE [date EXCEPT !.y = @ + 1, !.m = 1, !.d = 1]

\* date + timedelta(days=i), i >= 0
RECURSIVE AddDays(_, _)
AddDays(date, i) == IF i = 0 THEN date ELSE AddDays(NextDay(date), i - 1)

----------------------------------------------------------------------------
(* The upstream sites.  Their content depends on the upstream state and on *)
(* the posted date; a page is a sequence of tables, a table a sequence of  *)
(* rows with the header row first, a row the texts of its td cells.        *)

UpstreamStates == {1, 2, 3}

\* the upstream states the running server meets
ServedStates == {1, 2}

Str(n) == IF n < 10 THEN <<DigitChar(n)>> ELSE Pad2(n)

DATE == <<"d", "a", "t", "e">>
USD == <<"U", "S", "D">>
EUR == <<"E", "U", "R">>
Header == << <<"h">> >>

\* bonbast.com/historical: rows [date, sell, buy]
HistoricalPage(date, u) ==
    LET d1 == strftime_ymd(date)
        d2 == strftime_ymd(NextDay(date))
    IN  CASE u = 1 -> << <<Header, <<d1, Str(60), Str(59)>>,
                                   <<d2, Str(61), <<"-">> >> >> >>
          [] u = 2 -> << <<Header, <<d1, Str(62), Str(61)>>,
                                   <<d1, Str(0), Str(61)>>,
                                   <<d2, <<"6", "3", ".", "5">>, Str(62)>> >>,
                         <<Header, <<d2, Str(90), Str(91)>> >> >>
          [] u = 3 -> << <<Header, <<d1, Str(64), Str(63)>>, <<d2>> >> >>

\* bonbast.com/archive: rows [currencyCode, name, sell, buy]; the last
\* table of the page is not a price table
ArchivePage(date, u) ==
    LET v == Str(50 + date.d)
    IN  CASE u = 1 -> << <<Header, <<USD, <<"x">>, v, Str(49)>>,
                                   <<EUR, <<"x">>, Str(0), Str(65)>> >>,
                         <<Header, <<Lower(USD), <<"x">>, Str(70), v>> >>,
                         <<Header, <<EUR, <<"x">>, Str(99), Str(98)>> >> >>
          [] u = 2 -> << <<Header, <<USD, <<"x">>, Str(71), v>>,
                                   <<Lower(DATE), <<"x">>, Str(1), Str(2)>> >>,
                         <<Header>> >>
          [] u = 3 -> << <<Header, <<USD, <<"x">>, <<"n">> >>,
                                   <<EUR, <<"x">>, Str(66)>> >>,
                         <<Header>> >>

\* bonbast's price API: currencies with code, sell, buy
LatestCurrencies(u) ==
    CASE u = 1 -> <<[code |-> USD, sell |-> 60, buy |-> 59],
                    [code |-> EUR, sell |-> 0, buy |-> 0]>>
      [] u = 2 -> <<[code |-> USD, sell |-> 61, buy |-> 60]>>
      [] u = 3 -> <<[code |-> Lower(USD), sell |-> 62, buy |-> 61],
                    [code |-> USD, sell |-> 63, buy |-> 62]>>

\* api.wallex.ir/v1/markets: the JSON body; state 3 answers without "result"
CryptoBody(u) ==
    IF u = 3 THEN [success |-> FALSE]
    ELSE [result |-> [symbols |-> [BTCUSDT |-> 100 + u]], success |-> TRUE]

\* the status of a GET that got no answer (a timeout, a refused connection)
NoAnswer == 0

CryptoStatuses == {200, 503, NoAnswer}

NoBody == [empty |-> TRUE]

\* what the upstream serves for a POST to BONBAST_URL/<url> with that date
UpstreamPage(url, posted, u) ==
    LET date == strptime_ymd(posted)
    IN  IF url = "historical" THEN HistoricalPage(date, u)
                              ELSE ArchivePage(date, u)

----------------------------------------------------------------------------
(* A call runs in a context [store, calls]: the cache store as the call    *)
(* finds it and the number of upstream requests issued so far by the task  *)
(* step; the environment [u, failAt] gives the upstream state and which    *)
(* upstream request of the step, if any, is answered with an error.        *)
(* A call returns [ret, store, calls].                                     *)

Return(r, ctx) == [ret |-> r, store |-> ctx.store, calls |-> ctx.calls]

AnswerStatus(n, env) == IF n = env.failAt THEN 503 ELSE 200

\* the context once the next upstream request has been issued
Called(ctx) == [ctx EXCEPT !.calls = @ + 1]

RECURSIVE merge_and_extract_tables(_)
merge_and_extract_tables(tables_soup) ==
    IF tables_soup = <<>> THEN <<>>
    ELSE Tail(Head(tables_soup)) \o merge_and_extract_tables(Tail(tables_soup))

crawl_soup(url, post_data, status, u) ==
    IF status # 200 THEN Exception("Failed to crawl")
    ELSE Ok(UpstreamPage(url, post_data, u))

Quote(sell, buy) == [sell |-> sell, buy |-> buy]

\* A row of a row loop under contextlib.suppress(ValueError): the cells are
\* read in the order sell, buy.  A missing cell raises IndexError, which
\* nothing catches; an unreadable or non-positive one skips the row.
Skip == [ok |-> FALSE, exc |-> "skipped"]

\* a slip: the test "sell > 0 and buy > 0" written with >=
RowBuy_nonnegative(sell, buy) ==
    IF ~buy.ok THEN Skip
    ELSE IF sell.value >= 0 /\ buy.value >= 0 THEN Ok(Quote(sell.value, buy.value))
    ELSE Skip

RowBuy(sell, buy) ==
    IF ~buy.ok THEN Skip
    ELSE IF sell.value > 0 /\ buy.value > 0 THEN Ok(Quote(sell.value, buy.value))
    ELSE Skip

RowSell(row, i, sell) ==
    IF ~sell.ok THEN Skip
    ELSE IF Len(row) < i + 1 THEN Uncaught("IndexError")
    ELSE RowBuy(sell, int(row[i + 1]))

\* the quote of a row whose sell cell is the i-th and buy cell the next
RowQuote(row, i) ==
    IF Len(row) < i THEN Uncaught("IndexError") ELSE RowSell(row, i, int(row[i]))

\* the row loop of read_historical_currency: row = [date, sell, buy]
RECURSIVE historical_prices(_, _)
historical_row(row, rest, prices, q) ==
    IF q.ok THEN historical_prices(rest, (row[1] :> q.value) @@ prices)
    ELSE IF q = Skip THEN historical_prices(rest, prices)
    ELSE q

historical_prices(table, prices) ==
    IF table = <<>> THEN Ok(prices)
    ELSE historical_row(Head(table), Tail(table), prices, RowQuote(Head(table), 2))

\* the row loop of read_archive: row = [currencyCode, _, sell, buy]
RECURSIVE archive_prices(_, _)
\* a slip: the code is kept as the upstream writes it
archive_row_as_written(row, rest, prices, q) ==
    IF q.ok THEN archive_prices(rest, (row[1] :> q.value) @@ prices)
    ELSE IF q = Skip THEN archive_prices(rest, prices)
    ELSE q

archive_row(row, rest, prices, q) ==
    IF q.ok THEN archive_prices(rest, (Lower(row[1]) :> q.value) @@ prices)
    ELSE IF q = Skip THEN archive_prices(rest, prices)
    ELSE q

archive_prices(table, prices) ==
    IF table = <<>> THEN Ok(prices)
    ELSE archive_row(Head(table), Tail(table), prices, RowQuote(Head(table), 3))

----------------------------------------------------------------------------
(* The decorator @cache(expire=60 * 30) (fastapi_cache.decorator.cache):   *)
(* look the key up; on a hit return the decoded entry; on a miss call the  *)
(* function and, if it returns, store the encoded value for Expire.        *)

\* a slip: what the function raised is stored like a value
cache_finish_any(key, r, t) ==
    [r EXCEPT !.store =
        backend_set(r.store, key, Encode(IF r.ret.ok THEN r.ret.value ELSE r.ret),
                    Expire, t)]

\* a slip: a live entry another task has stored meanwhile is kept
cache_finish_first(key, r, t) ==
    IF r.ret.ok /\ ~Live(r.store, key, t)
    THEN [r EXCEPT !.store = backend_set(r.store, key, Encode(r.ret.value), Expire, t)]
    ELSE r

\* the store after the wrapped function has returned or raised
cache_finish(key, r, t) ==
    IF r.ret.ok
    THEN [r EXCEPT !.store = backend_set(r.store, key, Encode(r.ret.value), Expire, t)]
    ELSE r

\* the context in which the wrapped function runs after a miss
Missed(ctx, key, t) == [ctx EXCEPT !.store = backend_get(ctx.store, key, t).store]

\* a slip: the entry found is not used
cache_refetch(key, g, ctx, r, t) == cache_finish(key, r, t)

\* g is the lookup, r what the wrapped function does after a miss
cache(key, g, ctx, r, t) ==
    IF g.hit THEN Return(Ok(Decode(g.value)), [ctx EXCEPT !.store = g.store])
    ELSE cache_finish(key, r, t)

----------------------------------------------------------------------------
(* The route functions *)

historical_crawled(soup, ctx) ==
    IF ~soup.ok THEN Return(soup, ctx)
    ELSE IF soup.value = <<>> THEN Return(Uncaught("AttributeError"), ctx)
    ELSE Return(historical_prices(Tail(Head(soup.value)), <<>>), ctx)

\* a slip: the page is requested before the date is looked at
historical_parsed_late(currency, parsed, ctx, env) ==
    IF ~parsed.ok
    THEN Return(HTTPException(422, "Invalid Date format. Expected YYYY-MM"), Called(ctx))
    ELSE historical_crawled(crawl_soup("historical", strftime_ymd(parsed),
                                       AnswerStatus(ctx.calls + 1, env), env.u),
                            Called(ctx))

historical_parsed(currency, parsed, ctx, env) ==
    IF ~parsed.ok
    THEN Return(HTTPException(422, "Invalid Date format. Expected YYYY-MM"), ctx)
    ELSE historical_crawled(crawl_soup("historical", strftime_ymd(parsed),
                                       AnswerStatus(ctx.calls + 1, env), env.u),
                            Called(ctx))

\* the body of read_historical_currency
read_historical_currency_func(currency, date, ctx, env) ==
    historical_parsed(currency, strptime_ym(date), ctx, env)

\* read_historical_currency as decorated
read_historical_currency(key, currency, date, ctx, t, env) ==
    cache(key, backend_get(ctx.store, key, t), ctx,
          read_historical_currency_func(currency, date, Missed(ctx, key, t), env), t)

archive_crawled(posted, soup, ctx) ==
    IF ~soup.ok THEN Return(soup, ctx)
    ELSE Return(archive_prices(
                    merge_and_extract_tables(SubSeq(soup.value, 1, Len(soup.value) - 1)),
                    (DATE :> [str |-> posted])), ctx)

archive_parsed(parsed, ctx, env) ==
    IF ~parsed.ok
    THEN Return(HTTPException(422, "Invalid Date format. Expected YYYY-MM-DD"), ctx)
    ELSE archive_crawled(strftime_ymd(parsed),
                         crawl_soup("archive", strftime_ymd(parsed),
                                    AnswerStatus(ctx.calls + 1, env), env.u),
                         Called(ctx))

\* the body of read_archive
read_archive_func(date, ctx, env) == archive_parsed(strptime_ymd(date), ctx, env)

\* read_archive as decorated
read_archive(key, date, ctx, t, env) ==
    cache(key, backend_get(ctx.store, key, t), ctx,
          read_archive_func(date, Missed(ctx, key, t), env), t)

\* the dict comprehension of read_latest; a later duplicate code wins
RECURSIVE latest_prices(_, _)
latest_prices(currencies, prices) ==
    IF currencies = <<>> THEN prices
    ELSE latest_prices(Tail(currencies),
                       (Lower(Head(currencies).code) :>
                          Quote(Head(currencies).sell, Head(currencies).buy)) @@ prices)

\* the body of read_latest: the token request, then the price request
read_latest_func(ctx, env) ==
    IF AnswerStatus(ctx.calls + 1, env) # 200
    THEN Return(Uncaught("Exception"), Called(ctx))
    ELSE IF AnswerStatus(ctx.calls + 2, env) # 200
    THEN Return(Uncaught("Exception"), Called(Called(ctx)))
    ELSE Return(Ok(latest_prices(LatestCurrencies(env.u), <<>>)), Called(Called(ctx)))

\* a slip: /latest answers with what the poller has set under 'latest_data'
read_latest_polled(key, ctx, t, env) ==
    IF Live(ctx.store, RawKey("latest_data"), t)
    THEN Return(Ok(ctx.store[RawKey("latest_data")].value), ctx)
    ELSE cache(key, backend_get(ctx.store, key, t), ctx,
               read_latest_func(Missed(ctx, key, t), env), t)

\* read_latest as decorated
read_latest(key, ctx, t, env) ==
    cache(key, backend_get(ctx.store, key, t), ctx,
          read_latest_func(Missed(ctx, key, t), env), t)

\* the key of a direct call func(*args)
DirectKey(fn, args) == CacheKey(fn, args, <<>>)

\* price.pop("date")
Popped(price) == [k \in DOMAIN price \ {DATE} |-> price[k]]

\* the loop of read_archive_range over range(duration.days + 1), from day i
RECURSIVE archive_range_loop(_, _, _, _, _, _, _)
archive_range_price(start, i, days, price_range, r, t, env) ==
    IF ~r.ret.ok THEN r
    ELSE IF "str" \notin DOMAIN r.ret.value[DATE] THEN Return(Uncaught("TypeError"), r)
    ELSE archive_range_loop(start, i + 1, days,
             (r.ret.value[DATE].str :> Popped(r.ret.value)) @@ price_range,
             [store |-> r.store, calls |-> r.calls], t, env)

\* a slip: the range calls the undecorated function, so no day is cached
archive_range_day_uncached(start, i, days, price_range, day, ctx, t, env) ==
    archive_range_price(start, i, days, price_range,
        read_archive_func(day, ctx, env), t, env)

archive_range_day(start, i, days, price_range, day, ctx, t, env) ==
    archive_range_price(start, i, days, price_range,
        read_archive(DirectKey("read_archive", <<day>>), day, ctx, t, env), t, env)

archive_range_loop(start, i, days, price_range, ctx, t, env) ==
    IF i > days THEN Return(Ok(price_range), ctx)
    ELSE archive_range_day(start, i, days, price_range,
                           strftime_ymd(AddDays(start, i)), ctx, t, env)

\* a slip: range(duration.days), which leaves the end date out
archive_range_exclusive(s, e, ctx, t, env) ==
    IF ~s.ok \/ ~e.ok
    THEN Return(HTTPException(422, "Invalid Date format. Expected YYYY-MM-DD"), ctx)
    ELSE archive_range_loop(s, 0, DurationDays(s, e) - 1, <<>>, ctx, t, env)

archive_range_parsed(s, e, ctx, t, env) ==
    IF ~s.ok \/ ~e.ok
    THEN Return(HTTPException(422, "Invalid Date format. Expected YYYY-MM-DD"), ctx)
    ELSE archive_range_loop(s, 0, DurationDays(s, e), <<>>, ctx, t, env)

\* the body of read_archive_range
read_archive_range_func(start_date, end_date, ctx, t, env) ==
    archive_range_parsed(strptime_ymd(start_date), strptime_ymd(end_date), ctx, t, env)

\* read_archive_range as decorated
read_archive_range(key, start_date, end_date, ctx, t, env) ==
    cache(key, backend_get(ctx.store, key, t), ctx,
          read_archive_range_func(start_date, end_date, Missed(ctx, key, t), t, env), t)

\* a slip: HTTPStatusError is not handled, so the server answers 500
get_crypto_prices_unhandled(answer) ==
    IF answer.status = NoAnswer THEN Uncaught("TransportError")
    ELSE IF ~(answer.status \in 200..299) THEN Uncaught("HTTPStatusError")
    ELSE IF answer.body = NoBody THEN Uncaught("JSONDecodeError")
    ELSE IF "result" \notin DOMAIN answer.body THEN Uncaught("KeyError")
    ELSE Ok(answer.body.result.symbols)

\* get_crypto_prices after the awaited GET has been answered
get_crypto_prices_func(answer) ==
    IF answer.status = NoAnswer THEN Uncaught("TransportError")
    ELSE IF ~(answer.status \in 200..299)
    THEN HTTPException(answer.status, "HTTPStatusError")
    ELSE IF answer.body = NoBody THEN Uncaught("JSONDecodeError")
    ELSE IF "result" \notin DOMAIN answer.body THEN Uncaught("KeyError")
    ELSE Ok(answer.body.result.symbols)

----------------------------------------------------------------------------
(* The requests the model sends *)

D20240228 == <<"2", "0", "2", "4", "-", "0", "2", "-", "2", "8">>
D20240229 == <<"2", "0", "2", "4", "-", "0", "2", "-", "2", "9">>
D20240301 == <<"2", "0", "2", "4", "-", "0", "3", "-", "0", "1">>
M202402 == <<"2", "0", "2", "4", "-", "0", "2">>
BAD == <<"B", "A", "D">>

Call(ep, args) == [ep |-> ep, args |-> args]

Calls ==
    {Call("historical", <<Lower(USD), M202402>>),
     Call("archive", <<D20240229>>),
     Call("archive", <<BAD>>),
     Call("range", <<D20240229, D20240301>>),
     Call("latest", <<>>),
     Call("crypto", <<>>)}

\* the name of the function behind a route
RouteFunction(ep) ==
    CASE ep = "historical" -> "read_historical_currency"
      [] ep = "archive" -> "read_archive"
      [] ep = "range" -> "read_archive_range"
      [] ep = "latest" -> "read_latest"
      [] ep = "crypto" -> "get_crypto_prices"

\* FastAPI calls a route's function with keyword arguments only
RouteKey(call) == CacheKey(RouteFunction(call.ep), <<>>, call.args)

LatestKey == CacheKey("read_latest", <<>>, <<>>)
CryptoKey == CacheKey("get_crypto_prices", <<>>, <<>>)

\* the HTTP response FastAPI makes of a return value or an exception
Response(ret) ==
    IF ret.ok THEN [status |-> 200, body |-> ret.value]
    ELSE [status |-> ret.status, detail |-> ret.detail]

\* a route whose function never suspends: one step from lookup to store
Blocking(ep) == ep \in {"historical", "archive", "range", "latest"}

\* the function of a blocking route, called as FastAPI calls it
RouteCall(call, ctx, t, env) ==
    CASE call.ep = "historical" ->
            read_historical_currency(RouteKey(call), call.args[1], call.args[2], ctx, t, env)
      [] call.ep = "archive" ->
            read_archive(RouteKey(call), call.args[1], ctx, t, env)
      [] call.ep = "range" ->
            read_archive_range(RouteKey(call), call.args[1], call.args[2], ctx, t, env)
      [] call.ep = "latest" ->
            read_latest(RouteKey(call), ctx, t, env)

\* which upstream request of a step is answered with an error: none, the
\* first, the second
FailPoints == {0, 1, 2}

Envs == {[u |-> upstream, failAt |-> k] : k \in FailPoints}

\* what the upstream answers to GET /v1/markets in its current state
CryptoAnswers ==
    {[status |-> c, body |-> IF c = 200 THEN CryptoBody(upstream) ELSE NoBody] :
        c \in CryptoStatuses}

----------------------------------------------------------------------------
(* The state machine *)

Idle == [pc |-> "idle"]

Init ==
    /\ now = 0
    /\ store = <<>>
    /\ upstream = 1
    /\ poller = [pc |-> "ready", wakeAt |-> 0, cycle |-> 0, answer |-> NoBody,
                 log |-> <<>>, sent |-> {}]
    /\ reqs = [r \in Requests |-> Idle]
    /\ events = 0
    /\ success = NoValue
    /\ input = NoValue
    /\ output = NoValue

\* time passes
Tick(d) ==
    /\ events < MaxEvents
    /\ events' = events + 1
    /\ now' = now + d
    /\ UNCHANGED <<store, upstream, poller, reqs, success, input, output>>

\* the upstream sites change their content
UpstreamChange(u) ==
    /\ events < MaxEvents
    /\ events' = events + 1
    /\ u > upstream
    /\ upstream' = u
    /\ UNCHANGED <<now, store, poller, reqs, success, input, output>>

\* history: a request has succeeded less than Expire ago and the upstream
\* has not changed since
Recent == success # NoValue /\ now < success.at + Expire /\ upstream = success.u

\* history: how many responses were successful
Successes == IF success = NoValue THEN 0 ELSE success.n

\* A request reaches the server; its task is ready to run.  The requests of
\* one behaviour are for one route and argument set.
Arrive(r, call) ==
    /\ events < MaxEvents
    /\ events' = events + 1
    /\ reqs[r].pc = "idle"
    /\ \A q \in Requests : q < r => reqs[q].pc # "idle" /\ reqs[q].call = call
    /\ reqs' = [reqs EXCEPT ![r] =
                  [pc |-> "arrived", call |-> call,
                   cold |-> ~Live(store, RouteKey(call), now),
                   late |-> Recent, seen |-> Successes]]
    /\ UNCHANGED <<now, store, upstream, poller, success, input, output>>

\* history: request q arrived after the latest success, less than Expire
\* after it, and the upstream has not changed since that success
Repeat(q) == q.late /\ q.seen = Successes /\ Recent

Done(q, ret, calls, hit, repeat, first) ==
    [pc |-> "done", call |-> q.call, cold |-> q.cold, resp |-> Response(ret),
     calls |-> calls, hit |-> hit, repeat |-> repeat,
     same |-> repeat /\ first = Response(ret)]

Succeeded(ret) ==
    IF ret.ok
    THEN [resp |-> Response(ret), at |-> now, u |-> upstream, n |-> Successes + 1]
    ELSE success

\* the end of a blocking handler that has done res
Ran(r, res, hit) ==
    /\ store' = res.store
    /\ reqs' = [reqs EXCEPT ![r] =
                  Done(reqs[r], res.ret, res.calls, hit, Repeat(reqs[r]), success.resp)]
    /\ success' = Succeeded(res.ret)

\* the event loop runs the handler of a blocking route to its end
RunBlocking(r) ==
    /\ reqs[r].pc = "arrived"
    /\ Blocking(reqs[r].call.ep)
    /\ \E env \in Envs :
          Ran(r, RouteCall(reqs[r].call, [store |-> store, calls |-> 0], now, env),
              Live(store, RouteKey(reqs[r].call), now))
    /\ UNCHANGED <<now, upstream, poller, events, input, output>>

\* the decorator's lookup g of get_crypto_prices: a hit ends the request, a
\* miss sends the GET, which the upstream answers in its current state
Looked(r, g) ==
    /\ store' = g.store
    /\ IF g.hit
       THEN /\ reqs' = [reqs EXCEPT ![r] =
                          Done(reqs[r], Ok(Decode(g.value)), 0, TRUE, Repeat(reqs[r]),
                               success.resp)]
            /\ success' = Succeeded(Ok(Decode(g.value)))
       ELSE /\ \E a \in CryptoAnswers :
                  reqs' = [reqs EXCEPT ![r] =
                     [pc |-> "awaiting", call |-> reqs[r].call,
                      cold |-> reqs[r].cold, answer |-> a,
                      repeat |-> Repeat(reqs[r]),
                      first |-> IF Repeat(reqs[r]) THEN success.resp ELSE NoValue]]
            /\ success' = success

\* get_crypto_prices up to its await
RunCrypto(r) ==
    /\ reqs[r].pc = "arrived"
    /\ reqs[r].call.ep = "crypto"
    /\ Looked(r, backend_get(store, CryptoKey, now))
    /\ UNCHANGED <<now, upstream, poller, events, input, output>>

\* the end of get_crypto_prices, which returns or raises ret
Resumed(r, ret) ==
    /\ store' = cache_finish(CryptoKey, [ret |-> ret, store |-> store, calls |-> 1], now).store
    /\ reqs' = [reqs EXCEPT ![r] =
                  Done(reqs[r], ret, 1, FALSE, reqs[r].repeat, reqs[r].first)]
    /\ success' = Succeeded(ret)

\* get_crypto_prices from its await on, and the decorator's store
ResumeCrypto(r) ==
    /\ reqs[r].pc = "awaiting"
    /\ Resumed(r, get_crypto_prices_func(reqs[r].answer))
    /\ UNCHANGED <<now, upstream, poller, events, input, output>>

\* a slip: no try/except around the latest-quote fetch
latest_fetched_uncaught(res, t) ==
    IF res.ret.ok
    THEN [store |-> backend_set(res.store, RawKey("latest_data"), res.ret.value, Expire, t),
          log |-> <<"read_latest", "set latest_data">>, raised |-> FALSE,
          sent |-> IF res.calls > 0 THEN {"bonbast"} ELSE {}]
    ELSE [store |-> res.store, log |-> <<"read_latest">>, raised |-> TRUE,
          sent |-> IF res.calls > 0 THEN {"bonbast"} ELSE {}]

\* fetch_and_cache_data once read_latest has returned or raised: the value is
\* set under 'latest_data'; an exception is caught and logged
latest_fetched(res, t) ==
    IF res.ret.ok
    THEN [store |-> backend_set(res.store, RawKey("latest_data"), res.ret.value, Expire, t),
          log |-> <<"read_latest", "set latest_data">>, raised |-> FALSE,
          sent |-> IF res.calls > 0 THEN {"bonbast"} ELSE {}]
    ELSE [store |-> res.store, log |-> <<"read_latest">>, raised |-> FALSE,
          sent |-> IF res.calls > 0 THEN {"bonbast"} ELSE {}]

\* a slip: the poller calls the undecorated function, which always fetches
fetch_and_cache_data_uncached(st, t, env) ==
    latest_fetched(read_latest_func([store |-> st, calls |-> 0], env), t)

\* fetch_and_cache_data; it never suspends
fetch_and_cache_data(st, t, env) ==
    latest_fetched(read_latest(LatestKey, [store |-> st, calls |-> 0], t, env), t)

\* a slip: no try/except around the crypto fetch
fetch_crypto_data_uncaught(ret, st, t) ==
    IF ret.ok
    THEN [store |-> backend_set(st, RawKey("crypto_data"), ret.value, Expire, t),
          log |-> <<"set crypto_data">>, raised |-> FALSE]
    ELSE [store |-> st, log |-> <<>>, raised |-> TRUE]

\* fetch_crypto_data once get_crypto_prices has returned or raised: the value
\* is set under 'crypto_data'; an exception is caught and logged
fetch_crypto_data(ret, st, t) ==
    IF ret.ok
    THEN [store |-> backend_set(st, RawKey("crypto_data"), ret.value, Expire, t),
          log |-> <<"set crypto_data">>, raised |-> FALSE]
    ELSE [store |-> st, log |-> <<>>, raised |-> FALSE]

\* the scheduler reaches await asyncio.sleep(10), or an exception ended it
Sleeping(raised, log, sent) ==
    IF raised
    THEN [poller EXCEPT !.pc = "dead", !.log = log, !.answer = NoBody, !.sent = sent]
    ELSE [poller EXCEPT !.pc = "sleeping", !.wakeAt = now + SleepSeconds,
                        !.log = log \o <<"sleep">>, !.answer = NoBody,
                        !.sent = sent]

\* fetch_crypto_data has done c; the scheduler goes on to its sleep
scheduler_sleeps(c, log, sent) ==
    /\ store' = c.store
    /\ poller' = Sleeping(c.raised, log \o c.log, sent)

\* fetch_crypto_data as far as the decorator's lookup g and the awaited GET
scheduler_crypto(log, sent, g, a) ==
    IF g.hit
    THEN scheduler_sleeps(fetch_crypto_data(Ok(Decode(g.value)), g.store, now), log,
                          sent)
    ELSE /\ store' = g.store
         /\ poller' = [poller EXCEPT !.pc = "awaiting", !.log = log, !.answer = a,
                                     !.sent = sent \cup {"wallex"}]

\* the first definition of scheduler, which the second replaces: no crypto
scheduler_first(f, a) ==
    /\ store' = f.store
    /\ poller' = Sleeping(f.raised, f.log, f.sent)

\* the scheduler after fetch_and_cache_data has done f
scheduler_fetched(f, a) ==
    IF f.raised THEN store' = f.store /\ poller' = Sleeping(TRUE, f.log, f.sent)
    ELSE scheduler_crypto(f.log \o <<"get_crypto_prices">>, f.sent,
                          backend_get(f.store, CryptoKey, now), a)

\* One cycle of the second definition of scheduler, the one start_scheduler
\* runs, up to its first suspension: fetch_and_cache_data, then
\* fetch_crypto_data as far as the awaited GET, which the upstream answers
\* in its current state.
scheduler ==
    /\ poller.pc = "ready"
    /\ \E env \in Envs, a \in CryptoAnswers :
          scheduler_fetched(fetch_and_cache_data(store, now, env), a)
    /\ UNCHANGED <<now, upstream, reqs, events, success, input, output>>

\* the cycle from the await in get_crypto_prices to await asyncio.sleep(10)
scheduler_resumed(ret) ==
    scheduler_sleeps(
        fetch_crypto_data(ret,
            cache_finish(CryptoKey, [ret |-> ret, store |-> store, calls |-> 1], now).store,
            now),
        poller.log, poller.sent)

scheduler_resume ==
    /\ poller.pc = "awaiting"
    /\ scheduler_resumed(get_crypto_prices_func(poller.answer))
    /\ UNCHANGED <<now, upstream, reqs, events, success, input, output>>

\* the sleep ends, at the earliest SleepSeconds later; the next cycle begins
scheduler_wake ==
    /\ poller.pc = "sleeping"
    /\ events < MaxEvents
    /\ events' = events + 1
    /\ now' = IF now < poller.wakeAt THEN poller.wakeAt ELSE now
    /\ poller' = [poller EXCEPT !.pc = "ready", !.cycle = @ + 1]
    /\ UNCHANGED <<store, upstream, reqs, success, input, output>>

Next ==
    \/ \E d \in TickSteps : Tick(d)
    \/ \E u \in ServedStates : UpstreamChange(u)
    \/ \E r \in Requests, call \in Calls : Arrive(r, call)
    \/ \E r \in Requests : RunBlocking(r)
    \/ \E r \in Requests : RunCrypto(r)
    \/ \E r \in Requests : ResumeCrypto(r)
    \/ scheduler
    \/ scheduler_resume
    \/ scheduler_wake

Spec == Init /\ [][Next]_vars

\* The server while no request arrives.  The event loop runs a task that is
\* ready, so the scheduler's steps happen; the awaited GET ends (answered,
\* refused or timed out) and the sleep ends.
PollerNext ==
    \/ \E d \in TickSteps : Tick(d)
    \/ \E u \in ServedStates : UpstreamChange(u)
    \/ scheduler
    \/ scheduler_resume
    \/ scheduler_wake

PollerSpec ==
    /\ Init /\ [][PollerNext]_vars
    /\ WF_vars(scheduler) /\ WF_vars(scheduler_resume) /\ WF_vars(scheduler_wake)

----------------------------------------------------------------------------
(* Properties of the running server *)

Finished(r) == reqs[r].pc = "done"

\* request r ends in this step
Ends(r) == reqs[r].pc # "done" /\ reqs'[r].pc = "done"

\* request r ends in this step with a value its function has just returned
EndsFetched(r) == Ends(r) /\ ~reqs'[r].hit /\ reqs'[r].resp.status = 200

\* C1 as it is stated: a request that arrives and is handled less than
\* 1800 s after a request with the same arguments succeeded, the upstream
\* unchanged since, returns the same output as that request and issues no
\* upstream fetch.
C1_SameWithin1800 ==
    \A r \in Requests :
        (Finished(r) /\ reqs[r].repeat) => (reqs[r].same /\ reqs[r].calls = 0)

\* C1, amended: a request that is handled while the cache holds an entry for
\* its route and arguments that was stored at most 1800 s ago returns that
\* entry's value, issues no upstream fetch and leaves the cache as it is; a
\* request whose function returns a value stores it for 1800 s from then.
C1_CachedFor1800 ==
    [][\A r \in Requests :
          /\ (/\ reqs[r].pc = "arrived"
              /\ reqs'[r] # reqs[r]
              /\ RouteKey(reqs[r].call) \in DOMAIN store
              /\ now <= store[RouteKey(reqs[r].call)].expire)
                => /\ reqs'[r].pc = "done"
                   /\ reqs'[r].resp =
                        [status |-> 200,
                         body |-> store[RouteKey(reqs[r].call)].value.json]
                   /\ reqs'[r].calls = 0
                   /\ store' = store
          /\ EndsFetched(r)
                => store'[RouteKey(reqs[r].call)].expire = now + Expire]_vars

C1_Witness ==
    \E r \in Requests :
        Finished(r) /\ reqs[r].repeat /\ reqs[r].hit /\ reqs[r].same /\ now > 0

\* what a cycle of the poller has done when it awaits the crypto API
AwaitingLogs ==
    {<<"read_latest", "get_crypto_prices">>,
     <<"read_latest", "set latest_data", "get_crypto_prices">>}

\* what a cycle of the poller has done when it sleeps
SleepingLogs ==
    {log \o tail : log \in AwaitingLogs,
                   tail \in {<<"sleep">>, <<"set crypto_data", "sleep">>}}

InLog(what, log) == \E i \in 1..Len(log) : log[i] = what

\* C2: no cycle ends the poller; whether the latest-quote fetch, the crypto
\* fetch, both or neither raise, the cycle reaches its sleep (a cycle ends
\* only by waking from the sleep), and the sleep is followed by the next
\* cycle (as long as the model lets time pass).
C2_PollerNeverStops ==
    /\ [](poller.pc # "dead")
    /\ [][poller'.cycle # poller.cycle
            => poller.pc = "sleeping" /\ poller'.pc = "ready"]_vars
    /\ (poller.pc \in {"ready", "awaiting"}) ~> (poller.pc = "sleeping")
    /\ (poller.pc = "sleeping") ~> (poller.pc = "ready" \/ events = MaxEvents)

\* a cycle has begun after a cycle in which both fetches raised
C2_Witness ==
    /\ poller.pc = "ready"
    /\ poller.cycle >= 1
    /\ poller.log = <<"read_latest", "get_crypto_prices", "sleep">>

\* C3: a cycle of the poller calls the latest-quote fetch and, if the fetch
\* returned, sets 'latest_data' for 1800 s; then calls the crypto fetch and,
\* if that returned, sets 'crypto_data' for 1800 s; then sleeps.  Nothing is
\* set under 'crypto_data' before the latest-quote fetch, and no cycle goes
\* to sleep without the crypto fetch.
C3_CycleOrder ==
    /\ [](/\ poller.pc = "awaiting" => poller.log \in AwaitingLogs
          /\ poller.pc = "sleeping" => poller.log \in SleepingLogs)
    /\ [][/\ poller.pc = "ready" /\ poller'.pc # "ready"
             => /\ InLog("set latest_data", poller'.log) <=> LatestKey \in DOMAIN store'
                /\ LatestKey \in DOMAIN store'
                     => store'[RawKey("latest_data")] =
                           [value |-> store'[LatestKey].value.json,
                            expire |-> now + Expire]
          /\ poller.pc # "sleeping" /\ poller'.pc = "sleeping"
             => /\ poller'.wakeAt = now + SleepSeconds
                /\ InLog("set crypto_data", poller'.log)
                     => /\ CryptoKey \in DOMAIN store'
                        /\ store'[RawKey("crypto_data")] =
                              [value |-> store'[CryptoKey].value.json,
                               expire |-> now + Expire]
          /\ poller.pc = "awaiting" /\ poller'.pc # "awaiting"
                /\ poller.answer.status = 200 /\ "result" \in DOMAIN poller.answer.body
             => /\ InLog("set crypto_data", poller'.log)
                /\ store'[RawKey("crypto_data")].value
                      = poller.answer.body.result.symbols]_vars

\* a second cycle that did all of it
C3_Witness ==
    /\ poller.pc = "sleeping"
    /\ poller.cycle >= 1
    /\ poller.log = <<"read_latest", "set latest_data", "get_crypto_prices",
                      "set crypto_data", "sleep">>

ContractKeys == {LatestKey, CryptoKey, RawKey("latest_data"), RawKey("crypto_data")}
ContractValues == {[json |-> 1], [json |-> 2]}
ContractTtls == {1, SleepSeconds, Expire}

\* st is the store after set(key, v, ttl) at the time now
SetThenGet(st, key, v, ttl) ==
    /\ st[key].expire = now + ttl
    /\ st[key].value = v
    /\ \A k \in DOMAIN store \ {key} : st[k] = store[k]
    /\ \A d \in {0, ttl - 1} :
          backend_get(st, key, now + d).hit /\ backend_get(st, key, now + d).value = v
    /\ \A d \in {ttl + 1, ttl + Expire} : ~backend_get(st, key, now + d).hit

\* C4: in every store and at every time the server reaches: after
\* set(key, v, ttl) the entry of the key is v with expiry now + ttl, whatever
\* was there, and the other entries are as before; get(key) then returns v
\* at every time before now + ttl and misses at every time after it; get of
\* a key that has no entry misses; get of an entry returns its value up to
\* its expiry and misses after it.
C4_StoreContract ==
    /\ \A key \in ContractKeys :
          /\ key \notin DOMAIN store => ~backend_get(store, key, now).hit
          /\ key \in DOMAIN store =>
                /\ now <= store[key].expire =>
                      /\ backend_get(store, key, now).hit
                      /\ backend_get(store, key, now).value = store[key].value
                /\ now > store[key].expire => ~backend_get(store, key, now).hit
    /\ \A key \in ContractKeys, v \in ContractValues, ttl \in ContractTtls :
          SetThenGet(backend_set(store, key, v, ttl, now), key, v, ttl)

\* an entry that has expired and one that has not
C4_Witness ==
    /\ CryptoKey \in DOMAIN store
    /\ store[CryptoKey].expire < now
    /\ RawKey("crypto_data") \in DOMAIN store
    /\ now <= store[RawKey("crypto_data")].expire

\* the routes whose cache entry only requests write, called with a date
PlainRoutes ==
    {c \in Calls : c.ep \in {"historical", "archive", "range"} /\ BAD \notin
                                       {c.args[i] : i \in 1..Len(c.args)}}

\* C5 as it is stated: a request that arrives while its route and arguments
\* are not cached issues an upstream fetch of its own, also when other
\* requests with the same arguments are under way.
C5_NoCoalescing ==
    \A r \in Requests :
        (Finished(r) /\ reqs[r].cold /\ reqs[r].call \in PlainRoutes)
           => reqs[r].calls >= 1

\* C6: whenever a task ends a fetch that returned a value, the entry of its
\* key is from then on that value with expiry now + 1800, whatever another
\* task wrote there before or while the fetch was under way; every entry is
\* at every time one such pair, and an entry changes only by being written
\* whole.
C6_LastWriterWins ==
    /\ [](\A k \in DOMAIN store :
             DOMAIN store[k] = {"value", "expire"} /\ store[k].expire <= now + Expire)
    /\ [][/\ \A r \in Requests :
                EndsFetched(r)
                   => store'[RouteKey(reqs[r].call)] =
                         [value |-> [json |-> reqs'[r].resp.body],
                          expire |-> now + Expire]
          /\ (poller.pc = "awaiting" /\ poller'.pc # "awaiting"
                 /\ poller.answer.status = 200)
                => store'[CryptoKey] =
                      [value |-> [json |-> poller.answer.body.result.symbols],
                       expire |-> now + Expire]
          /\ \A k \in DOMAIN store' :
                (k \notin DOMAIN store \/ store'[k] # store[k])
                   => store'[k].expire = now + Expire]_vars

\* a request stored what it fetched and the poller, whose fetch was under
\* way before, has since stored another value in its place
C6_Witness ==
    \E r \in Requests :
        /\ Finished(r) /\ ~reqs[r].hit /\ reqs[r].resp.status = 200
        /\ reqs[r].call.ep = "crypto"
        /\ CryptoKey \in DOMAIN store
        /\ store[CryptoKey].value # [json |-> reqs[r].resp.body]
        /\ store[CryptoKey].expire = now + Expire

\* request r ends in this step with an error response
EndsFailed(r) == Ends(r) /\ reqs'[r].resp.status # 200

\* ... with one of the failures the routes raise themselves: 422 for a bad
\* date, "Failed to crawl" for an upstream page that is not answered with
\* 200, the upstream's status for a crypto answer outside 2xx
EndsRaised(r) == EndsFailed(r) /\ reqs'[r].resp.detail # "Internal Server Error"

\* the poller's latest-quote fetch raises in this step
LatestRaises ==
    /\ poller.pc = "ready" /\ poller'.pc # "ready"
    /\ ~InLog("set latest_data", poller'.log)

\* the poller's crypto fetch raises in this step
CryptoRaises ==
    /\ poller.pc = "awaiting" /\ poller'.pc # "awaiting"
    /\ ~InLog("set crypto_data", poller'.log)

\* the entry under key k is neither created nor overwritten in this step
NotWritten(k) == k \in DOMAIN store' => (k \in DOMAIN store /\ store'[k] = store[k])

\* the entry under key k, if it has not expired, stays as it is
LiveKept(k) ==
    (k \in DOMAIN store /\ now <= store[k].expire)
        => (k \in DOMAIN store' /\ store'[k] = store[k])

AllKeys == DOMAIN store \cup DOMAIN store'

\* the keys under which /archive/range calls read_archive for the days of
\* the range the model asks for
RangeDayKeys ==
    {DirectKey("read_archive", <<d>>) : d \in {D20240229, D20240301}}

\* C12 as it is stated: an operation that fails (a request answered 422,
\* "Failed to crawl" or the crypto API's error status, a poller fetch that
\* raises) creates and overwrites no cache entry, and every entry that has
\* not expired keeps its value and expiry.
C12_FailureChangesNothing ==
    [][/\ \A r \in Requests :
             EndsRaised(r) => \A k \in AllKeys : NotWritten(k) /\ LiveKept(k)
       /\ LatestRaises =>
             \A k \in {LatestKey, RawKey("latest_data")} : NotWritten(k) /\ LiveKept(k)
       /\ CryptoRaises => \A k \in AllKeys : NotWritten(k) /\ LiveKept(k)]_vars

\* C12, amended: a request that fails and a poller fetch that raises
\* leave every unexpired entry as it is and write no entry, except that a
\* failing /archive/range request leaves behind the read_archive entries of
\* the days it fetched before it failed, each stored for 1800 s.
C12_FailureStoresNoFailure ==
    [][/\ \A r \in Requests :
             EndsFailed(r) =>
                \A k \in AllKeys :
                   /\ LiveKept(k)
                   /\ \/ NotWritten(k)
                      \/ /\ reqs[r].call.ep = "range"
                         /\ k \in RangeDayKeys
                         /\ ~(k \in DOMAIN store /\ now <= store[k].expire)
                         /\ store'[k].expire = now + Expire
                         /\ DATE \in DOMAIN store'[k].value.json
       /\ LatestRaises =>
             \A k \in {LatestKey, RawKey("latest_data")} : NotWritten(k) /\ LiveKept(k)
       /\ CryptoRaises => \A k \in AllKeys : NotWritten(k) /\ LiveKept(k)]_vars

\* /archive/range has failed at its second day, on the second upstream
\* request: the first day's entry is in the cache, the range's is not
C12_Witness ==
    \E r \in Requests :
        /\ Finished(r)
        /\ reqs[r].call.ep = "range"
        /\ reqs[r].resp.status = 500
        /\ reqs[r].resp.detail = "Failed to crawl"
        /\ reqs[r].calls = 2
        /\ DirectKey("read_archive", <<D20240229>>) \in DOMAIN store
        /\ RouteKey(reqs[r].call) \notin DOMAIN store

\* the entry the poller sets under a raw key from the cached entry of key
Restored(key) == [value |-> store[key].value.json, expire |-> now + Expire]

\* C16: the poller calls the memoized read_latest and get_crypto_prices.  A
\* cycle that starts while the entry of read_latest is live (stored at most
\* 1800 s before) sends no request to bonbast, leaves that entry as it is
\* and sets 'latest_data' to its value with expiry now + 1800; the same for
\* get_crypto_prices, 'crypto_data' and the crypto API, after which the
\* cycle sleeps without having awaited.  While the entry of read_latest is
\* live no step replaces it, so a successful latest-quote fetch is the only
\* one of its 1800 s.
C16_PollerServedFromCache ==
    [][/\ (poller.pc = "ready" /\ poller'.pc # "ready") =>
             /\ (LatestKey \in DOMAIN store /\ now <= store[LatestKey].expire) =>
                   /\ "bonbast" \notin poller'.sent
                   /\ store'[RawKey("latest_data")] = Restored(LatestKey)
             /\ (CryptoKey \in DOMAIN store /\ now <= store[CryptoKey].expire) =>
                   /\ "wallex" \notin poller'.sent
                   /\ poller'.pc = "sleeping"
                   /\ store'[CryptoKey] = store[CryptoKey]
                   /\ store'[RawKey("crypto_data")] = Restored(CryptoKey)
       /\ LiveKept(LatestKey)]_vars

\* the cycle after a cycle that fetched both: nothing is sent, and
\* 'latest_data' now expires later than the entry of read_latest
C16_Witness ==
    /\ poller.pc = "sleeping"
    /\ poller.cycle > 0
    /\ poller.sent = {}
    /\ poller.log = <<"read_latest", "set latest_data", "get_crypto_prices",
                      "set crypto_data", "sleep">>
    /\ store[RawKey("latest_data")].expire > store[LatestKey].expire
    /\ store[RawKey("latest_data")].value = store[LatestKey].value.json

\* the keys the poller sets, and a store without them
RawKeys == {RawKey("latest_data"), RawKey("crypto_data")}
WithoutRaw(st) == [k \in DOMAIN st \ RawKeys |-> st[k]]

\* the outcome res of a route function is what request r ends with
Outcome(r, res) ==
    /\ reqs'[r].calls = res.calls
    /\ reqs'[r].resp = Response(res.ret)
    /\ WithoutRaw(store') = res.store

\* C17: no endpoint reads or writes 'latest_data' or 'crypto_data': every
\* step of a request does what it would do were the two entries not in the
\* store (the same response, the same upstream requests, the same entries
\* stored), and leaves the two entries as they are.
C17_RawEntriesUnobserved ==
    [][\A r \in Requests :
          reqs'[r] # reqs[r] =>
             /\ \A k \in RawKeys :
                   /\ k \in DOMAIN store <=> k \in DOMAIN store'
                   /\ k \in DOMAIN store => store'[k] = store[k]
             /\ (reqs[r].pc = "arrived" /\ Blocking(reqs[r].call.ep)) =>
                   \E env \in Envs :
                       Outcome(r, RouteCall(reqs[r].call,
                                            [store |-> WithoutRaw(store), calls |-> 0],
                                            now, env))
             /\ (reqs[r].pc = "arrived" /\ reqs[r].call.ep = "crypto") =>
                   /\ WithoutRaw(store')
                         = backend_get(WithoutRaw(store), CryptoKey, now).store
                   /\ backend_get(WithoutRaw(store), CryptoKey, now).hit
                         <=> reqs'[r].pc = "done"
                   /\ reqs'[r].pc = "done" =>
                         reqs'[r].resp
                            = [status |-> 200,
                               body |-> Decode(backend_get(WithoutRaw(store),
                                                           CryptoKey, now).value)]
             /\ reqs[r].pc = "awaiting" =>
                   /\ reqs'[r].resp
                         = Response(get_crypto_prices_func(reqs[r].answer))
                   /\ WithoutRaw(store')
                         = cache_finish(CryptoKey,
                              [ret |-> get_crypto_prices_func(reqs[r].answer),
                               store |-> WithoutRaw(store), calls |-> 1], now).store]_vars

\* 'latest_data', set anew by the poller's second cycle, is live when the
\* entry of read_latest has expired: GET /latest fetches all the same
C17_Witness ==
    \E r \in Requests :
        /\ Finished(r)
        /\ reqs[r].call.ep = "latest"
        /\ reqs[r].resp.status = 200
        /\ ~reqs[r].hit
        /\ reqs[r].calls = 2
        /\ RawKey("latest_data") \in DOMAIN store
        /\ LatestKey \in DOMAIN store
        /\ store[RawKey("latest_data")].expire < store[LatestKey].expire
        /\ store[RawKey("latest_data")].expire >= now

\* C18: the two fetches of a cycle fail independently.  A cycle whose
\* latest-quote fetch raises goes on to get_crypto_prices (it awaits the
\* crypto API, or takes the cached value and sets 'crypto_data'), and a
\* usable crypto answer is then stored under 'crypto_data' whether or not
\* the latest-quote fetch of the cycle raised; a crypto fetch that raises
\* leaves 'latest_data' as it is, so what the cycle has set stays set.
C18_FetchesIndependent ==
    [][/\ LatestRaises =>
             /\ InLog("get_crypto_prices", poller'.log)
             /\ \/ poller'.pc = "awaiting"
                \/ /\ poller'.pc = "sleeping"
                   /\ InLog("set crypto_data", poller'.log)
                   /\ store'[RawKey("crypto_data")].expire = now + Expire
       /\ (/\ poller.pc = "awaiting" /\ poller'.pc # "awaiting"
           /\ poller.answer.status = 200
           /\ "result" \in DOMAIN poller.answer.body) =>
             /\ poller'.pc = "sleeping"
             /\ InLog("set crypto_data", poller'.log)
             /\ store'[RawKey("crypto_data")]
                   = [value |-> poller.answer.body.result.symbols,
                      expire |-> now + Expire]
       /\ CryptoRaises =>
             /\ poller'.pc = "sleeping"
             /\ RawKey("latest_data") \in DOMAIN store
                   <=> RawKey("latest_data") \in DOMAIN store'
             /\ InLog("set latest_data", poller.log) =>
                   /\ RawKey("latest_data") \in DOMAIN store'
                   /\ store'[RawKey("latest_data")] = store[RawKey("latest_data")]]_vars

\* a cycle whose latest-quote fetch raised has stored the crypto prices
C18_Witness ==
    /\ poller.pc = "sleeping"
    /\ poller.log = <<"read_latest", "get_crypto_prices", "set crypto_data", "sleep">>
    /\ RawKey("crypto_data") \in DOMAIN store
    /\ RawKey("latest_data") \notin DOMAIN store

----------------------------------------------------------------------------
(* Single calls: the functions applied to arguments, upstream pages and    *)
(* upstream answers drawn from wider sets than the running server meets.   *)

\* date parameters: well-formed, ill-formed, and of the other route's format
DateTexts ==
    {D20240228, D20240229, D20240301, M202402, BAD, <<>>,
     <<"2", "0", "2", "4", "-", "2">>,
     <<"2", "0", "2", "4", "-", "2", "-", "2", "8">>,
     <<"2", "0", "2", "4", "-", "1", "3">>,
     <<"2", "0", "2", "3", "-", "0", "2", "-", "2", "9">>,
     <<"2", "0", "2", "4", "-", "0", "3", "-", "0", "3", " ">>}

RouteCalls ==
    {Call("historical", <<Lower(USD), d>>) : d \in DateTexts}
      \cup {Call("archive", <<d>>) : d \in DateTexts}
      \cup {Call("range", <<d, e>>) : d \in DateTexts, e \in DateTexts}

\* which upstream request of a call is answered with an error
CallFailPoints == {0, 1, 2}

\* statuses the crypto API may answer with, and bodies
AnswerStatuses == {200, 201, 301, 404, 500, 503}
Answers ==
    {[status |-> c, body |-> b] :
        c \in AnswerStatuses,
        b \in {CryptoBody(u) : u \in UpstreamStates} \cup {NoBody}}

\* td texts of a sell or buy cell
Cells == {<<"6", "0">>, <<"0">>, <<"-", "5">>, <<"x">>, <<" ", "7", " ">>,
          <<"1", "_", "0">>}
RowKeys == {USD, Lower(USD)}

\* rows [key, sell, buy] and rows that are cut short
Rows ==
    {<<k, s, b>> : k \in RowKeys, s \in Cells, b \in Cells}
      \cup {<<k, s>> : k \in RowKeys, s \in Cells}
      \cup {<<k>> : k \in RowKeys}

\* longest table of a single call
MaxRows == 2

Tables == UNION {[1..n -> Rows] : n \in 0..MaxRows}

\* the same row as bonbast.com/archive has it: [code, name, sell, buy]
ArchiveRow(row) == <<row[1], <<"x">>>> \o Tail(row)
ArchiveRows(table) == [i \in 1..Len(table) |-> ArchiveRow(table[i])]

\* what bonbast's get_prices_from_api may hand to read_latest: Currency
\* objects with a code and integer sell and buy, in lists up to MaxRows long
CurrencyCodes == {USD, <<"U", "s", "d">>, EUR}
CurrencyAmounts == {60, 59, 0}
Currencies ==
    {[code |-> c, sell |-> s, buy |-> b] :
        c \in CurrencyCodes, s \in CurrencyAmounts, b \in CurrencyAmounts}
CurrencyLists == UNION {[1..n -> Currencies] : n \in 0..MaxRows}

\* the inputs of single calls, one set for each kind of call
RouteInputs ==
    {[op |-> "route", call |-> c, failAt |-> k] : c \in RouteCalls, k \in CallFailPoints}
CryptoInputs == {[op |-> "crypto", answer |-> a] : a \in Answers}
RowsInputs == {[op |-> "rows", table |-> t] : t \in Tables}
LatestInputs == {[op |-> "latest", currencies |-> l] : l \in CurrencyLists}

CallInit ==
    /\ now = 0
    /\ store = <<>>
    /\ \/ input \in RouteInputs
       \/ input \in CryptoInputs
       \/ input \in RowsInputs
       \/ input \in LatestInputs
    /\ upstream \in (IF input.op = "route" THEN UpstreamStates ELSE {1})
    /\ poller = [pc |-> "ready", wakeAt |-> 0, cycle |-> 0, answer |-> NoBody,
                 log |-> <<>>, sent |-> {}]
    /\ reqs = [r \in Requests |-> Idle]
    /\ events = 0
    /\ success = NoValue
    /\ output = NoValue

Returned(res) ==
    /\ store' = res.store
    /\ output' = [resp |-> Response(res.ret), calls |-> res.calls]

\* a route function called as FastAPI calls it, on an empty cache
CallRoute ==
    /\ output = NoValue
    /\ input.op = "route"
    /\ Returned(RouteCall(input.call, [store |-> store, calls |-> 0], now,
                          [u |-> upstream, failAt |-> input.failAt]))
    /\ UNCHANGED <<now, upstream, poller, reqs, events, success, input>>

\* get_crypto_prices once the GET is answered
CallCrypto ==
    /\ output = NoValue
    /\ input.op = "crypto"
    /\ output' = [resp |-> Response(get_crypto_prices_func(input.answer)), calls |-> 1]
    /\ UNCHANGED <<now, store, upstream, poller, reqs, events, success, input>>

\* the row loops of read_historical_currency and read_archive on a table
CallRows ==
    /\ output = NoValue
    /\ input.op = "rows"
    /\ output' = [historical |-> historical_prices(input.table, <<>>),
                  archive |-> archive_prices(ArchiveRows(input.table),
                                             (DATE :> [str |-> D20240229]))]
    /\ UNCHANGED <<now, store, upstream, poller, reqs, events, success, input>>

\* the dict comprehension of read_latest on a list of currencies
CallLatest ==
    /\ output = NoValue
    /\ input.op = "latest"
    /\ output' = [latest |-> latest_prices(input.currencies, <<>>)]
    /\ UNCHANGED <<now, store, upstream, poller, reqs, events, success, input>>

CallNext == CallRoute \/ CallCrypto \/ CallRows \/ CallLatest

CallSpec == CallInit /\ [][CallNext]_vars

----------------------------------------------------------------------------
(* Properties of single calls *)

\* the date texts of DateTexts that are dates in the format YYYY-MM
WellFormedMonths == {M202402, <<"2", "0", "2", "4", "-", "2">>}

\* the date texts of DateTexts that are dates in the format YYYY-MM-DD, with
\* the number of each day within the year 2024
DayNumber(d) ==
    CASE d = <<"2", "0", "2", "4", "-", "2", "-", "2", "8">> -> 59
      [] d = D20240228 -> 59
      [] d = D20240229 -> 60
      [] d = D20240301 -> 61
      [] OTHER -> 0

WellFormedDays == {d \in DateTexts : DayNumber(d) > 0}

Rejected(format) ==
    [resp |-> [status |-> 422, detail |-> format], calls |-> 0]

RouteReturned == output # NoValue /\ input.op = "route"

\* C7: a request to /historical/{currency}, /archive/ or /archive/range with
\* a date parameter that is not a date in the route's format is answered 422
\* with the route's fixed detail text, and no upstream request is issued
\* (none counted, nothing stored).
C7_BadDateIs422 ==
    RouteReturned =>
       /\ (input.call.ep = "historical" /\ input.call.args[2] \notin WellFormedMonths)
             => output = Rejected("Invalid Date format. Expected YYYY-MM")
       /\ (input.call.ep = "archive" /\ input.call.args[1] \notin WellFormedDays)
             => output = Rejected("Invalid Date format. Expected YYYY-MM-DD")
       /\ (input.call.ep = "range" /\ (input.call.args[1] \notin WellFormedDays
                                       \/ input.call.args[2] \notin WellFormedDays))
             => output = Rejected("Invalid Date format. Expected YYYY-MM-DD")
       /\ output.resp.status = 422 => store = <<>>

C7_Witness ==
    /\ RouteReturned
    /\ input.call = Call("range", <<D20240229, BAD>>)
    /\ output.resp.status = 422

\* C8: when the crypto API answers the GET with a status s outside 200..299
\* the response to /crypto has status s; when it answers 2xx with a JSON body
\* that has result.symbols, the response is 200 with exactly that value.
C8_CryptoStatus ==
    (output # NoValue /\ input.op = "crypto") =>
       /\ input.answer.status \notin 200..299
             => output.resp.status = input.answer.status
       /\ (input.answer.status \in 200..299 /\ "result" \in DOMAIN input.answer.body)
             => output.resp = [status |-> 200,
                               body |-> input.answer.body.result.symbols]

C8_Witness ==
    /\ output # NoValue
    /\ input.op = "crypto"
    /\ input.answer.status = 503
    /\ output.resp.status = 503

RangeSucceeded ==
    /\ RouteReturned
    /\ input.call.ep = "range"
    /\ input.call.args[1] \in WellFormedDays
    /\ input.call.args[2] \in WellFormedDays
    /\ output.resp.status = 200

\* (end_date - start_date).days of a range call
RangeDays == DayNumber(input.call.args[2]) - DayNumber(input.call.args[1])

\* the keys one per calendar day of [start_date, end_date]
RangeKeys ==
    {strftime_ymd(AddDays(strptime_ymd(input.call.args[1]), i)) : i \in 0..RangeDays}

\* C9 as it is stated: for well-formed start_date and end_date in either
\* order, a successful /archive/range response has exactly
\* (end_date - start_date).days + 1 keys.
C9_KeysEitherOrder ==
    RangeSucceeded => Cardinality(DOMAIN output.resp.body) = RangeDays + 1

\* C9, amended: for start_date <= end_date a successful /archive/range
\* response has exactly (end_date - start_date).days + 1 keys, the days of
\* [start_date, end_date]; for start_date > end_date it has no keys.
C9_RangeKeys ==
    RangeSucceeded =>
       /\ RangeDays >= 0 =>
             /\ Cardinality(DOMAIN output.resp.body) = RangeDays + 1
             /\ DOMAIN output.resp.body = RangeKeys
       /\ RangeDays < 0 => DOMAIN output.resp.body = {}

C9_Witness ==
    /\ RangeSucceeded
    /\ input.call.args = <<D20240228, D20240301>>
    /\ DOMAIN output.resp.body = {D20240228, D20240229, D20240301}

\* the number a sell or buy cell of Cells reads as, 0 when it is not a
\* positive integer
CellValue(c) ==
    CASE c = <<"6", "0">> -> 60
      [] c = <<" ", "7", " ">> -> 7
      [] c = <<"1", "_", "0">> -> 10
      [] OTHER -> 0

\* rows [key, sell, buy] whose sell and buy cells are positive integers
GoodRow(row) == Len(row) = 3 /\ CellValue(row[2]) > 0 /\ CellValue(row[3]) > 0

\* the last good row of the table filed under key k, where RowKey(i) is the
\* key of the i-th row
LastGood(table, keys, k) ==
    CHOOSE i \in 1..Len(table) :
        /\ GoodRow(table[i]) /\ keys[i] = k
        /\ \A j \in (i + 1)..Len(table) : ~(GoodRow(table[j]) /\ keys[j] = k)

\* the prices of exactly the good rows, the last one for each key
GoodPrices(table, keys) ==
    [k \in {keys[i] : i \in {j \in 1..Len(table) : GoodRow(table[j])}} |->
        Quote(CellValue(table[LastGood(table, keys, k)][2]),
              CellValue(table[LastGood(table, keys, k)][3]))]

HistoricalKeys(table) == [i \in 1..Len(table) |-> table[i][1]]
ArchiveKeys(table) == [i \in 1..Len(table) |-> <<"u", "s", "d">>]

\* C10: when the row loop of /historical/{currency} or /archive/ ends
\* normally, the output holds exactly the rows whose sell and buy cells are
\* both positive integers, each with those values, the last such row for
\* rows that share a key; rows with a non-numeric or non-positive sell or
\* buy cell are left out.  (/archive/ also holds the date.)
C10_RowsFiltered ==
    (output # NoValue /\ input.op = "rows") =>
       /\ output.historical.ok =>
             output.historical.value
                = GoodPrices(input.table, HistoricalKeys(input.table))
       /\ output.archive.ok =>
             output.archive.value
                = GoodPrices(input.table, ArchiveKeys(input.table))
                     @@ (DATE :> [str |-> D20240229])

C10_Witness ==
    /\ output # NoValue
    /\ input.op = "rows"
    /\ input.table = << <<USD, <<"6", "0">>, <<" ", "7", " ">> >>,
                        <<USD, <<"0">>, <<"6", "0">> >> >>
    /\ output.historical = Ok((USD :> Quote(60, 7)))
    /\ output.archive.ok

\* the upper-case letters
UpperChars ==
    {"A", "B", "C", "D", "E", "F", "G", "H", "I", "J", "K", "L", "M",
     "N", "O", "P", "Q", "R", "S", "T", "U", "V", "W", "X", "Y", "Z"}

HasUpper(text) == \E i \in 1..Len(text) : text[i] \in UpperChars

\* the codes of CurrencyCodes and RowKeys in lower case
LowerCode(c) ==
    IF c = EUR THEN <<"e", "u", "r">> ELSE <<"u", "s", "d">>

\* C11: the currency codes that key the output of /latest and of /archive/
\* are in lower case: the keys are exactly the lower-cased codes of the
\* upstream's currencies (for /archive/: of the rows that are retained,
\* beside the date), and no such key has an upper-case letter.
C11_KeysLowerCased ==
    /\ (output # NoValue /\ input.op = "latest") =>
          /\ DOMAIN output.latest
                = {LowerCode(input.currencies[i].code) :
                       i \in 1..Len(input.currencies)}
          /\ \A k \in DOMAIN output.latest : ~HasUpper(k)
    /\ (output # NoValue /\ input.op = "rows" /\ output.archive.ok) =>
          /\ DOMAIN output.archive.value \ {DATE}
                = {LowerCode(input.table[i][1]) :
                       i \in {j \in 1..Len(input.table) : GoodRow(input.table[j])}}
          /\ \A k \in DOMAIN output.archive.value \ {DATE} : ~HasUpper(k)

\* an /archive/ table with a row coded "USD" and a row coded "usd", both
\* retained: the output has the date and the one key "usd"
C11_Witness ==
    /\ output # NoValue
    /\ input.op = "rows"
    /\ output.archive.ok
    /\ Len(input.table) = 2
    /\ input.table[1][1] = USD
    /\ input.table[2][1] = <<"u", "s", "d">>
    /\ GoodRow(input.table[1])
    /\ DOMAIN output.archive.value = {DATE, <<"u", "s", "d">>}

\* C13: whatever the upstream table holds, rows with non-integer cells and
\* rows with fewer cells than the layout included, the row loops of
\* /historical/{currency} and /archive/ end normally (the request is
\* answered 200, the unparseable rows left out).
C13_RowsNeverFail ==
    (output # NoValue /\ input.op = "rows") =>
        (output.historical.ok /\ output.archive.ok)

\* the quotes of a dict of quotes, a key "date" aside
Positive(prices) ==
    \A k \in DOMAIN prices \ {DATE} : prices[k].sell > 0 /\ prices[k].buy > 0

\* C14: every quote in the output of the row loops of /historical/{currency}
\* and /archive/ (hence of /archive/range) and in the output of /latest has
\* sell > 0 and buy > 0.
C14_QuotesPositive ==
    /\ (output # NoValue /\ input.op = "rows") =>
          /\ output.historical.ok => Positive(output.historical.value)
          /\ output.archive.ok => Positive(output.archive.value)
    /\ (output # NoValue /\ input.op = "latest") => Positive(output.latest)

\* what /archive/ returns for day d on a cold cache with the upstream
\* answering
SingleDay(d) ==
    read_archive_func(d, [store |-> <<>>, calls |-> 0],
                      [u |-> upstream, failAt |-> 0]).ret

\* C15: the result of /archive/ for a day d always has the field date, equal
\* to d; a range whose days' single-day fetches all succeed succeeds (the
\* re-keying never fails), and its value under d is the single-day result
\* for d without the field date.
C15_RangeRekeyed ==
    /\ (/\ RouteReturned
        /\ input.call.ep = "archive"
        /\ output.resp.status = 200)
          => output.resp.body[DATE]
                = [str |-> strftime_ymd(strptime_ymd(input.call.args[1]))]
    /\ (/\ RouteReturned
        /\ input.call.ep = "range"
        /\ input.failAt = 0
        /\ input.call.args[1] \in WellFormedDays
        /\ input.call.args[2] \in WellFormedDays
        /\ \A d \in RangeKeys : SingleDay(d).ok)
          => output.resp.status = 200
    /\ RangeSucceeded =>
          \A d \in RangeKeys :
              /\ d \in DOMAIN output.resp.body
              /\ output.resp.body[d] = Popped(SingleDay(d).value)

----------------------------------------------------------------------------
(* Retries: GET /archive/range for the same two days again and again, the  *)
(* upstream failing now and then, time passing between the requests.       *)

RangeCall == Call("range", <<D20240229, D20240301>>)

\* seconds between one request and the next
RetrySteps == {Expire \div 3, 2 * (Expire \div 3) + 1}

\* the days of the range, in order, and the keys of their read_archive calls
RangeDay(j) == IF j = 1 THEN D20240229 ELSE D20240301
DayKey(j) == DirectKey("read_archive", <<RangeDay(j)>>)

\* the day at which the range has failed: the first whose entry is missing
FailedDay(res) ==
    IF res.ret.ok THEN 0 ELSE IF DayKey(1) \in DOMAIN res.store THEN 2 ELSE 1

\* pages whose rows do not overwrite the date the range re-keys by
RetryInit ==
    /\ now = 0
    /\ store = <<>>
    /\ upstream \in UpstreamStates \ {2}
    /\ poller = [pc |-> "ready", wakeAt |-> 0, cycle |-> 0, answer |-> NoBody,
                 log |-> <<>>, sent |-> {}]
    /\ reqs = [r \in Requests |-> Idle]
    /\ events = 0
    /\ success = NoValue
    /\ input = NoValue
    /\ output = NoValue

\* the request has done res at time t; success keeps the request before it
Retried(res, t) ==
    /\ store' = res.store
    /\ output' = [resp |-> Response(res.ret), calls |-> res.calls, at |-> t,
                  day |-> FailedDay(res)]
    /\ success' = output

\* d seconds after the last request the next one arrives and is handled,
\* the upstream failing at its k-th request
RetryRange(d, k) ==
    /\ events < MaxEvents
    /\ events' = events + 1
    /\ now' = now + d
    /\ Retried(RouteCall(RangeCall, [store |-> store, calls |-> 0], now + d,
                         [u |-> upstream, failAt |-> k]), now + d)
    /\ UNCHANGED <<upstream, poller, reqs, input>>

RetryNext == \E d \in RetrySteps, k \in FailPoints : RetryRange(d, k)

RetrySpec == RetryInit /\ [][RetryNext]_vars

----------------------------------------------------------------------------
(* Properties of retries *)

\* the entry under key is live at time t, the time of the request
CachedAt(key, t) == key \in DOMAIN store /\ t <= store[key].expire

\* the entry of day j is in the cache after the request at t: the one that
\* was live before it, or one stored by it
DayKept(j, t) ==
    /\ DayKey(j) \in DOMAIN store'
    /\ IF CachedAt(DayKey(j), t) THEN store'[DayKey(j)] = store[DayKey(j)]
       ELSE store'[DayKey(j)].expire = t + Expire

\* the entry of day j is not touched
DayUntouched(j) ==
    /\ DayKey(j) \in DOMAIN store <=> DayKey(j) \in DOMAIN store'
    /\ DayKey(j) \in DOMAIN store => store'[DayKey(j)] = store[DayKey(j)]

\* C19 as it is stated, its last part: a retry less than 1800 s after a
\* request that failed at day k fetches from day k on only (for k = 2, of
\* two days: at most one upstream request).
C19_RetryFromDayK ==
    (/\ success # NoValue
     /\ success.day > 0
     /\ output.at - success.at < Expire)
        => output.calls <= 3 - success.day

\* C19, amended: when /archive/range fails because the fetch of its k-th
\* day fails, the request is answered with the error, nothing is stored for
\* the range's arguments or for day k, the days after k are neither fetched
\* nor looked up, the days before k are in the cache (as they were if live,
\* else stored for 1800 s from now), and the request has sent one upstream
\* request for each day up to k that was not live; a request that finds no
\* live entry for the range and succeeds sends one for each day that was
\* not live.  So a retry fetches the days whose entries have expired or are
\* missing: from day k on only as long as the earlier days' entries live.
C19_RangeFailsAtDay ==
    [][events' # events =>
         /\ output'.resp.status # 200 =>
               /\ RouteKey(RangeCall) \notin DOMAIN store'
               /\ \E k \in 1..2 :
                     /\ output'.day = k
                     /\ ~CachedAt(DayKey(k), now')
                     /\ DayKey(k) \notin DOMAIN store'
                     /\ \A j \in 1..(k - 1) : DayKept(j, now')
                     /\ \A j \in (k + 1)..2 : DayUntouched(j)
                     /\ output'.calls
                           = Cardinality({j \in 1..(k - 1) :
                                             ~CachedAt(DayKey(j), now')}) + 1
         /\ (output'.resp.status = 200 /\ ~CachedAt(RouteKey(RangeCall), now')) =>
               /\ output'.calls
                     = Cardinality({j \in 1..2 : ~CachedAt(DayKey(j), now')})
               /\ \A j \in 1..2 : DayKept(j, now')
               /\ store'[RouteKey(RangeCall)].expire = now' + Expire]_vars

\* a range request has failed at its second day after fetching the first,
\* and the retry has fetched the second day only
C19_Witness ==
    /\ success # NoValue
    /\ success.resp.status = 500
    /\ success.resp.detail = "Failed to crawl"
    /\ success.day = 2
    /\ success.calls = 2
    /\ output.resp.status = 200
    /\ output.calls = 1

====
